---- MODULE Spec2Model ----
(***************************************************************************)
(* Model of src/main.py: the in-memory book catalogue (db_livros and       *)
(* ultimo_id_livro) and its five request handlers.                         *)
(*                                                                         *)
(* Python values are modelled as follows.                                  *)
(*   - An optional value is a sequence of length 0 or 1: None is << >>     *)
(*     and a present value v is <<v>>.                                     *)
(*   - A JSON request body is a function from the set of keys it holds to  *)
(*     optional values (a key holding JSON null maps to None).             *)
(*   - A pydantic model is a record [fields, fields_set]: fields gives     *)
(*     every declared field (defaults filled in), fields_set the keys the  *)
(*     body supplied, which is what exclude_unset consults.                *)
(*   - A dict is the sequence of its [key, value] entries in insertion     *)
(*     order, which is the order list(d.values()) iterates in.             *)
(***************************************************************************)
EXTENDS Integers, Sequences, FiniteSets, TLC

VARIABLES
    db_livros,        \* main.py:36  the dict, as a sequence of entries
    ultimo_id_livro,  \* main.py:37  the id counter
    req,              \* the request served last
    resp,             \* what the handler returned or raised for it
    ids_retornados,   \* history: ids returned by successful creates, in order
    deletados,        \* history: ids for which a delete has succeeded
    pc,               \* per worker thread: position inside criar_livro
    livro_local,      \* per worker thread: the validated LivroCreate
    novo_livro        \* per worker thread: the Livro built at main.py:68

vars == <<db_livros, ultimo_id_livro, req, resp, ids_retornados, deletados,
          pc, livro_local, novo_livro>>

----------------------------------------------------------------------------
(* Bounds of the model *)

MaxId == 2
MaxLivros == 12
MaxIdConc == 2

Threads == {"w1", "w2"}

----------------------------------------------------------------------------
(* Values *)

None == << >>
Some(v) == <<v>>

Campos == {"titulo", "autor", "ano_publicacao", "genero"}

Titulos == {"t1"}
Autores == {"a1"}
Anos == {1999}
Generos == {"g1"}

\* The values a body may carry under each key once type-checked: a value of
\* the field's type or JSON null.
Opcional(S) == {Some(v) : v \in S} \cup {None}

\* The JSON body holding the single key k with value v.
CorpoDe(k, v) == [x \in {k} |-> v]

\* The body holding every key of either body (the two hold different keys).
Junta(b1, b2) ==
    [k \in DOMAIN b1 \cup DOMAIN b2 |-> IF k \in DOMAIN b1 THEN b1[k] ELSE b2[k]]

CorpoVazio == [k \in {} |-> None]

HTTP_200_OK == 200
HTTP_201_CREATED == 201
HTTP_404_NOT_FOUND == 404
HTTP_422_UNPROCESSABLE == 422

LimitDefault == 10

----------------------------------------------------------------------------
(* Pydantic models *)

\* LivroBase / LivroCreate: titulo and autor are required str, the other two
\* default to None.
LivroCreateValido(body) ==
    /\ "titulo" \in DOMAIN body /\ body["titulo"] # None
    /\ "autor" \in DOMAIN body /\ body["autor"] # None

LivroCreate(body) ==
    [fields |-> [k \in Campos |-> IF k \in DOMAIN body THEN body[k] ELSE None],
     fields_set |-> DOMAIN body]

\* LivroUpdate: every field Optional with default None; any type-correct body
\* validates.
LivroUpdate(body) ==
    [fields |-> [k \in Campos |-> IF k \in DOMAIN body THEN body[k] ELSE None],
     fields_set |-> DOMAIN body]

model_dump(m) == m.fields

\* Variant: the dump without exclude_unset, every declared field included.
model_dump_sem_exclude(m) == m.fields

model_dump_exclude_unset(m) == [k \in m.fields_set |-> m.fields[k]]

\* Variant: the constructor losing genero.
Livro_sem_genero(id, data) ==
    [k \in Campos \cup {"id"} |->
        IF k = "id" THEN id ELSE IF k = "genero" THEN None ELSE data[k]]

Livro(id, data) ==
    [k \in Campos \cup {"id"} |-> IF k = "id" THEN id ELSE data[k]]

setattr(obj, key, value) == [obj EXCEPT ![key] = value]

\* for key, value in update_data.items(): setattr(obj, key, value)
RECURSIVE SetAll(_, _, _)
SetAll(obj, data, keys) ==
    IF keys = {} THEN obj
    ELSE LET k == CHOOSE x \in keys : TRUE
         IN SetAll(setattr(obj, k, data[k]), data, keys \ {k})

----------------------------------------------------------------------------
(* dict *)

DictKeys(d) == {d[i].key : i \in DOMAIN d}

DictGet(d, k) ==
    IF k \in DictKeys(d)
    THEN Some((d[CHOOSE i \in DOMAIN d : d[i].key = k]).value)
    ELSE None

DictSet(d, k, v) ==
    IF k \in DictKeys(d)
    THEN [i \in DOMAIN d |-> IF d[i].key = k THEN [key |-> k, value |-> v] ELSE d[i]]
    ELSE Append(d, [key |-> k, value |-> v])

DictDel(d, k) == SelectSeq(d, LAMBDA e : e.key # k)

DictValues(d) == [i \in DOMAIN d |-> d[i].value]

\* Python's s[start:stop] for a list s (step 1).
Min(a, b) == IF a < b THEN a ELSE b
Max(a, b) == IF a > b THEN a ELSE b
SliceIndex(i, n) == IF i < 0 THEN Max(0, i + n) ELSE Min(i, n)
PySlice(s, start, stop) ==
    LET a == SliceIndex(start, Len(s))
        b == SliceIndex(stop, Len(s))
    IN IF a < b THEN SubSeq(s, a + 1, b) ELSE << >>

----------------------------------------------------------------------------
(* Initial state *)

Init ==
    /\ db_livros = << >>
    /\ ultimo_id_livro = 0
    /\ req = [op |-> "none"]
    /\ resp = [status |-> HTTP_200_OK, body |-> << >>]
    /\ ids_retornados = << >>
    /\ deletados = {}
    /\ pc = [t \in Threads |-> "idle"]
    /\ livro_local = [t \in Threads |-> None]
    /\ novo_livro = [t \in Threads |-> None]

----------------------------------------------------------------------------
(* The handlers, each run to completion (one request at a time) *)

ThreadVars == <<pc, livro_local, novo_livro>>

\* Variant: the record is built before the counter is incremented.
criar_livro_pos_inc(body) ==
    /\ req' = [op |-> "criar_livro", body |-> body]
    /\ IF ~LivroCreateValido(body)
       THEN /\ resp' = [status |-> HTTP_422_UNPROCESSABLE, body |-> << >>]
            /\ UNCHANGED <<db_livros, ultimo_id_livro, ids_retornados>>
       ELSE LET livro == LivroCreate(body)
                novo == Livro(ultimo_id_livro, model_dump(livro))
            IN /\ ultimo_id_livro' = ultimo_id_livro + 1
               /\ db_livros' = DictSet(db_livros, novo.id, novo)
               /\ resp' = [status |-> HTTP_201_CREATED, body |-> <<novo>>]
               /\ ids_retornados' = Append(ids_retornados, novo.id)
    /\ UNCHANGED <<deletados, pc, livro_local, novo_livro>>

\* Variant: the id is taken from the size of the store.
criar_livro_len(body) ==
    /\ req' = [op |-> "criar_livro", body |-> body]
    /\ IF ~LivroCreateValido(body)
       THEN /\ resp' = [status |-> HTTP_422_UNPROCESSABLE, body |-> << >>]
            /\ UNCHANGED <<db_livros, ultimo_id_livro, ids_retornados>>
       ELSE LET livro == LivroCreate(body)
                novo == Livro(Len(db_livros) + 1, model_dump(livro))
            IN /\ ultimo_id_livro' = ultimo_id_livro + 1
               /\ db_livros' = DictSet(db_livros, novo.id, novo)
               /\ resp' = [status |-> HTTP_201_CREATED, body |-> <<novo>>]
               /\ ids_retornados' = Append(ids_retornados, novo.id)
    /\ UNCHANGED <<deletados, pc, livro_local, novo_livro>>

\* POST /livros. A body failing LivroCreate's validation never reaches the
\* handler; the framework answers 422.
criar_livro(body) ==
    /\ req' = [op |-> "criar_livro", body |-> body]
    /\ IF ~LivroCreateValido(body)
       THEN /\ resp' = [status |-> HTTP_422_UNPROCESSABLE, body |-> << >>]
            /\ UNCHANGED <<db_livros, ultimo_id_livro, ids_retornados>>
       ELSE LET livro == LivroCreate(body)
                novo == Livro(ultimo_id_livro + 1, model_dump(livro))
            IN /\ ultimo_id_livro' = ultimo_id_livro + 1
               /\ db_livros' = DictSet(db_livros, novo.id, novo)
               /\ resp' = [status |-> HTTP_201_CREATED, body |-> <<novo>>]
               /\ ids_retornados' = Append(ids_retornados, novo.id)
    /\ UNCHANGED <<deletados, ThreadVars>>

\* Variant: the slice taken as [skip : limit].
ListarResultado_skip_limit(d, skip, limit) ==
    LET livros_lista == DictValues(d)
        skip1 == IF skip < 0 THEN 0 ELSE skip
        limit1 == IF limit <= 0 THEN LimitDefault ELSE limit
    IN PySlice(livros_lista, skip1, limit1)

\* The value listar_livros returns.
ListarResultado(d, skip, limit) ==
    LET livros_lista == DictValues(d)
        skip1 == IF skip < 0 THEN 0 ELSE skip
        limit1 == IF limit <= 0 THEN LimitDefault ELSE limit
    IN PySlice(livros_lista, skip1, skip1 + limit1)

\* GET /livros
listar_livros(skip, limit) ==
    /\ req' = [op |-> "listar_livros", skip |-> skip, limit |-> limit]
    /\ resp' = [status |-> HTTP_200_OK, body |-> ListarResultado(db_livros, skip, limit)]
    /\ UNCHANGED <<db_livros, ultimo_id_livro, ids_retornados, deletados, ThreadVars>>

\* What obter_livro returns (status 200 and the record) or raises (404).
ObterResultado(d, livro_id) ==
    LET livro == DictGet(d, livro_id)
    IN IF livro = None
       THEN [status |-> HTTP_404_NOT_FOUND, body |-> << >>]
       ELSE [status |-> HTTP_200_OK, body |-> livro]

\* GET /livros/{livro_id}
obter_livro(livro_id) ==
    /\ req' = [op |-> "obter_livro", livro_id |-> livro_id]
    /\ resp' = ObterResultado(db_livros, livro_id)
    /\ UNCHANGED <<db_livros, ultimo_id_livro, ids_retornados, deletados, ThreadVars>>

\* Variant: an update of a missing id stores a record under it.
atualizar_livro_upsert(livro_id, body) ==
    /\ req' = [op |-> "atualizar_livro", livro_id |-> livro_id, body |-> body]
    /\ LET livro_existente == DictGet(db_livros, livro_id)
           update_data == model_dump_exclude_unset(LivroUpdate(body))
           base == IF livro_existente = None
                   THEN Livro(livro_id, model_dump(LivroUpdate(body)))
                   ELSE livro_existente[1]
           atualizado == SetAll(base, update_data, DOMAIN update_data)
       IN /\ db_livros' = DictSet(db_livros, livro_id, atualizado)
          /\ resp' = [status |-> HTTP_200_OK, body |-> <<atualizado>>]
    /\ UNCHANGED <<ultimo_id_livro, ids_retornados, deletados, pc, livro_local, novo_livro>>

\* PUT /livros/{livro_id}
atualizar_livro(livro_id, body) ==
    /\ req' = [op |-> "atualizar_livro", livro_id |-> livro_id, body |-> body]
    /\ LET livro_existente == DictGet(db_livros, livro_id)
       IN IF livro_existente = None
          THEN /\ resp' = [status |-> HTTP_404_NOT_FOUND, body |-> << >>]
               /\ UNCHANGED db_livros
          ELSE LET update_data == model_dump_exclude_unset(LivroUpdate(body))
                   atualizado == SetAll(livro_existente[1], update_data,
                                        DOMAIN update_data)
               IN /\ db_livros' = DictSet(db_livros, livro_id, atualizado)
                  /\ resp' = [status |-> HTTP_200_OK, body |-> <<atualizado>>]
    /\ UNCHANGED <<ultimo_id_livro, ids_retornados, deletados, ThreadVars>>

\* Variant: deleting the newest record hands its id back to the counter.
deletar_livro_dec(livro_id) ==
    /\ req' = [op |-> "deletar_livro", livro_id |-> livro_id]
    /\ IF livro_id \notin DictKeys(db_livros)
       THEN /\ resp' = [status |-> HTTP_404_NOT_FOUND, body |-> << >>]
            /\ UNCHANGED <<db_livros, deletados, ultimo_id_livro>>
       ELSE /\ db_livros' = DictDel(db_livros, livro_id)
            /\ deletados' = deletados \cup {livro_id}
            /\ ultimo_id_livro' = IF livro_id = ultimo_id_livro
                                  THEN ultimo_id_livro - 1 ELSE ultimo_id_livro
            /\ resp' = [status |-> HTTP_200_OK, body |-> << >>]
    /\ UNCHANGED <<ids_retornados, pc, livro_local, novo_livro>>

\* DELETE /livros/{livro_id}
deletar_livro(livro_id) ==
    /\ req' = [op |-> "deletar_livro", livro_id |-> livro_id]
    /\ IF livro_id \notin DictKeys(db_livros)
       THEN /\ resp' = [status |-> HTTP_404_NOT_FOUND, body |-> << >>]
            /\ UNCHANGED <<db_livros, deletados>>
       ELSE /\ db_livros' = DictDel(db_livros, livro_id)
            /\ deletados' = deletados \cup {livro_id}
            /\ resp' = [status |-> HTTP_200_OK, body |-> << >>]
    /\ UNCHANGED <<ultimo_id_livro, ids_retornados, ThreadVars>>

----------------------------------------------------------------------------
(* Sequential specification: any request, any input, one at a time *)

\* Path ids a client may send: every id the store can hold and one beyond.
Ids == 1 .. MaxId + 1

\* Update bodies: the empty body and every single-field body, a null value
\* included (autor, the twin of titulo, is only ever sent with a value).
CorposUpdate ==
    {CorpoVazio}
    \cup {CorpoDe("titulo", v) : v \in Opcional(Titulos)}
    \cup {CorpoDe("autor", Some(v)) : v \in Autores}
    \cup {CorpoDe("ano_publicacao", v) : v \in Opcional(Anos)}
    \cup {CorpoDe("genero", v) : v \in Opcional(Generos)}

\* Create bodies: titulo and autor with values, each optional field either
\* omitted or holding a value; and two invalid bodies (titulo missing, autor
\* null).
CorposCreate ==
    {Junta(Junta(Junta(CorpoDe("titulo", Some(t)), CorpoDe("autor", Some(a))), ano), gen) :
        t \in Titulos, a \in Autores,
        ano \in {CorpoVazio} \cup {CorpoDe("ano_publicacao", Some(v)) : v \in Anos},
        gen \in {CorpoVazio} \cup {CorpoDe("genero", Some(v)) : v \in Generos}}
    \cup {CorpoDe("autor", Some("a1")),
          Junta(CorpoDe("titulo", Some("t1")), CorpoDe("autor", None))}

Skips == {-1, 1}
Limits == {0, 1}

Criar == ultimo_id_livro < MaxId /\ \E body \in CorposCreate : criar_livro(body)
Listar == \E skip \in Skips, limit \in Limits : listar_livros(skip, limit)
Obter == \E livro_id \in Ids : obter_livro(livro_id)
Atualizar == \E livro_id \in Ids, body \in CorposUpdate : atualizar_livro(livro_id, body)
Deletar == \E livro_id \in Ids : deletar_livro(livro_id)

Next == Criar \/ Listar \/ Obter \/ Atualizar \/ Deletar

Spec == Init /\ [][Next]_vars

----------------------------------------------------------------------------
(* Pagination specification: a long catalogue of identical books, so that  *)
(* the default limit is smaller than the store.                            *)

CorpoFixo == Junta(CorpoDe("titulo", Some("t1")), CorpoDe("autor", Some("a1")))

\* Ids deleted or updated here: the first two and the last the store can hold.
IdsLista == {1, 2, MaxLivros}

SkipsLista == {-1, 0, 1, 2}
LimitsLista == {-1, 0, 1, 2, LimitDefault, LimitDefault + 1}

CriarLista == ultimo_id_livro < MaxLivros /\ criar_livro(CorpoFixo)
ListarLista == \E skip \in SkipsLista, limit \in LimitsLista : listar_livros(skip, limit)
AtualizarLista == \E livro_id \in IdsLista : atualizar_livro(livro_id, CorpoDe("genero", Some("g1")))
DeletarLista == \E livro_id \in IdsLista : deletar_livro(livro_id)

NextLista == CriarLista \/ ListarLista \/ AtualizarLista \/ DeletarLista

SpecLista == Init /\ [][NextLista]_vars

----------------------------------------------------------------------------
(* Concurrent specification: the handlers are plain `def` functions, which *)
(* the framework runs on worker threads against the shared module globals  *)
(* with no lock.  criar_livro is split at its statements: the increment    *)
(* (line 67), the construction of the record, which reads the counter      *)
(* (lines 68-71), the insert (line 72) and the return (line 73).           *)

SeqVars == <<deletados>>

\* The request arrives and its body is validated.
criar_begin(t, body) ==
    /\ pc[t] = "idle"
    /\ LivroCreateValido(body)
    /\ livro_local' = [livro_local EXCEPT ![t] = Some(LivroCreate(body))]
    /\ pc' = [pc EXCEPT ![t] = "inc"]
    /\ req' = [op |-> "criar_livro", body |-> body]
    /\ UNCHANGED <<db_livros, ultimo_id_livro, resp, ids_retornados, novo_livro, SeqVars>>

\* ultimo_id_livro += 1
criar_inc(t) ==
    /\ pc[t] = "inc"
    /\ ultimo_id_livro' = ultimo_id_livro + 1
    /\ pc' = [pc EXCEPT ![t] = "novo"]
    /\ UNCHANGED <<db_livros, req, resp, ids_retornados, livro_local, novo_livro, SeqVars>>

\* novo_livro = Livro(id=ultimo_id_livro, **livro.model_dump())
criar_novo(t) ==
    /\ pc[t] = "novo"
    /\ novo_livro' = [novo_livro EXCEPT
                        ![t] = Some(Livro(ultimo_id_livro, model_dump(livro_local[t][1])))]
    /\ pc' = [pc EXCEPT ![t] = "insert"]
    /\ UNCHANGED <<db_livros, ultimo_id_livro, req, resp, ids_retornados, livro_local, SeqVars>>

\* db_livros[novo_livro.id] = novo_livro
criar_insert(t) ==
    /\ pc[t] = "insert"
    /\ db_livros' = DictSet(db_livros, novo_livro[t][1].id, novo_livro[t][1])
    /\ pc' = [pc EXCEPT ![t] = "return"]
    /\ UNCHANGED <<ultimo_id_livro, req, resp, ids_retornados, livro_local, novo_livro, SeqVars>>

\* return novo_livro
criar_return(t) ==
    /\ pc[t] = "return"
    /\ resp' = [status |-> HTTP_201_CREATED, body |-> novo_livro[t]]
    /\ ids_retornados' = Append(ids_retornados, novo_livro[t][1].id)
    /\ pc' = [pc EXCEPT ![t] = "idle"]
    /\ livro_local' = [livro_local EXCEPT ![t] = None]
    /\ novo_livro' = [novo_livro EXCEPT ![t] = None]
    /\ UNCHANGED <<db_livros, ultimo_id_livro, req, SeqVars>>

\* Requests accepted so far: those returned and those in flight.
Aceitos == Len(ids_retornados) + Cardinality({t \in Threads : pc[t] # "idle"})

CorposConc ==
    {Junta(CorpoFixo, gen) : gen \in {CorpoVazio, CorpoDe("genero", Some("g1"))}}

CriarBegin ==
    /\ Aceitos < MaxIdConc
    /\ \E t \in Threads, body \in CorposConc : criar_begin(t, body)
CriarInc == \E t \in Threads : criar_inc(t)
CriarNovo == \E t \in Threads : criar_novo(t)
CriarInsert == \E t \in Threads : criar_insert(t)
CriarReturn == \E t \in Threads : criar_return(t)

NextConc == CriarBegin \/ CriarInc \/ CriarNovo \/ CriarInsert \/ CriarReturn

SpecConc == Init /\ [][NextConc]_vars

----------------------------------------------------------------------------
(* Properties *)

Existe(livro_id) == livro_id \in DictKeys(db_livros)
OpsPorId == {"obter_livro", "atualizar_livro", "deletar_livro"}

\* C1: with requests served one at a time from the empty store, the first
\* create returns id 1, every create returns an id greater than every id an
\* earlier create returned (so none is returned twice, deleted or not), and the
\* id in a create's response is the one recorded for it.
C1_IdsCrescentes ==
    /\ ids_retornados # << >> => ids_retornados[1] = 1
    /\ \A i, j \in DOMAIN ids_retornados :
          i < j => ids_retornados[i] < ids_retornados[j]
    /\ (req.op = "criar_livro" /\ resp.status = 201) =>
          resp.body[1].id = ids_retornados[Len(ids_retornados)]

\* C1 witness: a create has returned after the record of an earlier create
\* was deleted.
C1_Witness ==
    /\ req.op = "criar_livro" /\ resp.status = 201
    /\ Len(ids_retornados) >= 2
    /\ ids_retornados[1] \in deletados

\* C2: every stored record has titulo and autor present (not None).
C2_TituloAutorPresentes ==
    \A i \in DOMAIN db_livros :
        /\ db_livros[i].value["titulo"] # None
        /\ db_livros[i].value["autor"] # None

C4_NotFound ==
    /\ [](resp.status = 404 => ENABLED Obter /\ ENABLED Atualizar /\ ENABLED Deletar)
    /\ [][(req'.op \in OpsPorId /\ ~Existe(req'.livro_id))
          => /\ resp'.status = 404
             /\ db_livros' = db_livros
             /\ ultimo_id_livro' = ultimo_id_livro]_vars

\* C4 witness: an update of a missing id was answered 404 on a non-empty store.
C4_Witness ==
    /\ req.op = "atualizar_livro" /\ resp.status = 404
    /\ req.body # CorpoVazio
    /\ db_livros # << >>

\* C5: an id whose delete has succeeded is never a key of the store again,
\* and every later get, update or delete of it ends with 404.
C5_DeletadoParaSempre ==
    /\ [](deletados \cap DictKeys(db_livros) = {})
    /\ [][(req'.op \in OpsPorId /\ req'.livro_id \in deletados)
          => resp'.status = 404]_vars

\* C5 witness: a create has succeeded after a delete, and a get of the
\* deleted id was then answered 404.
C5_Witness ==
    /\ req.op = "obter_livro" /\ resp.status = 404
    /\ req.livro_id \in deletados
    /\ \E i \in DOMAIN ids_retornados : ids_retornados[i] > req.livro_id
    /\ db_livros # << >>

\* The stored records in ascending order of id.
RECURSIVE OrdenadosPorId(_)
OrdenadosPorId(S) ==
    IF S = {} THEN << >>
    ELSE LET m == CHOOSE r \in S : \A q \in S : r.id <= q.id
         IN <<m>> \o OrdenadosPorId(S \ {m})

PaginaEsperada(d, skip, limit) ==
    LET s == IF skip < 0 THEN 0 ELSE skip
        l == IF limit <= 0 THEN 10 ELSE limit
        ord == OrdenadosPorId({d[i].value : i \in DOMAIN d})
        n == IF Len(ord) - s < l THEN Len(ord) - s ELSE l
    IN [i \in 1 .. n |-> ord[s + i]]

\* C6: list answers 200 with the stored records in ascending-id order from
\* offset s, at most l of them, where s = 0 if skip < 0 else skip and l = 10
\* if limit <= 0 else limit; it changes neither the store nor the counter.
C6_Paginacao ==
    [][req'.op = "listar_livros"
       => /\ resp'.status = 200
          /\ resp'.body = PaginaEsperada(db_livros, req'.skip, req'.limit)
          /\ db_livros' = db_livros
          /\ ultimo_id_livro' = ultimo_id_livro]_vars

\* C6 witness: a list with limit <= 0 returned 10 records of a store that
\* holds more, some records having been deleted before.
C6_Witness ==
    /\ req.op = "listar_livros" /\ req.limit <= 0 /\ req.skip < 0
    /\ Len(db_livros) > 10
    /\ Len(resp.body) = 10
    /\ deletados # {}

\* C7: after a successful create, get of the returned id answers 200 with a
\* record holding the returned id and the four input fields (an omitted
\* optional field reading None); every record stored before is unchanged.
C7_CriarObter ==
    [][(req'.op = "criar_livro" /\ resp'.status = 201)
       => LET id == resp'.body[1].id
              b == req'.body
              obtido == ObterResultado(db_livros', id)
          IN /\ obtido.status = 200
             /\ obtido.body[1].id = id
             /\ obtido.body[1].titulo = b["titulo"]
             /\ obtido.body[1].autor = b["autor"]
             /\ \A f \in {"ano_publicacao", "genero"} :
                   obtido.body[1][f] = IF f \in DOMAIN b THEN b[f] ELSE None
             /\ obtido.body = resp'.body
             /\ \A k \in DictKeys(db_livros) :
                   DictGet(db_livros', k) = DictGet(db_livros, k)]_vars

\* C7 witness: a create that supplied genero and omitted ano_publicacao has
\* returned while another record was stored.
C7_Witness ==
    /\ req.op = "criar_livro" /\ resp.status = 201
    /\ "genero" \in DOMAIN req.body
    /\ "ano_publicacao" \notin DOMAIN req.body
    /\ Len(db_livros) = 2

\* C8: with two creates running concurrently, the ids returned are distinct,
\* the insert never writes under a key already present, and once both have
\* returned the store holds one record per create.
C8_CriarAtomico ==
    /\ \A i, j \in DOMAIN ids_retornados :
          i # j => ids_retornados[i] # ids_retornados[j]
    /\ \A t \in Threads :
          pc[t] = "insert" => novo_livro[t][1].id \notin DictKeys(db_livros)
    /\ (\A t \in Threads : pc[t] = "idle") => Len(db_livros) = Len(ids_retornados)

\* C9: no update leaves an optional field that held a value with None.
C9_NaoLimpaOpcional ==
    [][req'.op = "atualizar_livro"
       => \A i \in DOMAIN db_livros : \A f \in {"ano_publicacao", "genero"} :
             db_livros[i].value[f] # None => db_livros'[i].value[f] # None]_vars

\* C10: every entry of the store is keyed by the id its record carries, every
\* key lies in 1 .. ultimo_id_livro, and the counter never decreases.
C10_ChavesEContador ==
    /\ [](\A i \in DOMAIN db_livros :
             /\ db_livros[i].value.id = db_livros[i].key
             /\ db_livros[i].key \in 1 .. ultimo_id_livro)
    /\ [][ultimo_id_livro' >= ultimo_id_livro]_vars

\* C10 witness: an update has succeeded on a store from which a record was
\* deleted, so the keys no longer fill 1 .. ultimo_id_livro.
C10_Witness ==
    /\ req.op = "atualizar_livro" /\ resp.status = 200
    /\ req.body # CorpoVazio
    /\ Len(db_livros) < ultimo_id_livro

====
